---- MODULE Spec2Model ----
(***************************************************************************)
(* A model of PyWithingsAPI: the OAuth2 client registration, the user's    *)
(* credentials with their refresh-before-use lifecycle, and the request    *)
(* dispatcher (post_request / get_data_dict).                              *)
(*                                                                         *)
(* Every call is one action.  The side effects of the call that was made   *)
(* last are kept, in program order, in last.trace: an HTTP POST is a       *)
(* "post" event, an assignment to a credential attribute an "assign"       *)
(* event, a successful write of a file a "write" event.                    *)
(*                                                                         *)
(* Python's None is the empty sequence <<>>, a present value x is <<x>>.   *)
(* A dict is a function whose DOMAIN is its set of keys, so that d[k] on a *)
(* missing key (KeyError) is visible to the model.                         *)
(***************************************************************************)
EXTENDS Integers, Sequences, FiniteSets, TLC

\* ----------------------------------------------------------------- bounds
MaxTime == 2          \* the clock int(time.time()) runs over 0..MaxTime
MaxExpiresIn == 1     \* the token endpoint answers expires_in in 1..MaxExpiresIn
MaxFields == 3        \* a data_fields list holds at most MaxFields names

\* ------------------------------------------------------ program constants
URL_OAUTH2_V2 == "https://wbsapi.withings.net/v2/oauth2"
URL_MEASURE == "https://wbsapi.withings.net/measure"
URL_MEASURE_V2 == "https://wbsapi.withings.net/v2/measure"
URL_HEART_V2 == "https://wbsapi.withings.net/v2/heart"
URL_SLEEP_V2 == "https://wbsapi.withings.net/v2/sleep"
STANDARD_SCOPE == "user.info,user.metrics,user.activity"

\* ------------------------------------------------------------ input sets
Times == 0..MaxTime
ExpiresInVals == 1..MaxExpiresIn
\* the token endpoint issues an access token together with a refresh token
TokenPairs == {[access_token |-> "accA", refresh_token |-> "refA"],
               [access_token |-> "accB", refresh_token |-> "refB"]}
StateVals == {"s1", "s2"}     \* the state parameter of a redirect URL
ClientStates == {"s1"}        \* the state a client is constructed with

None == <<>>
Some(x) == <<x>>

\* d restricted to the keys in K: a dict that lacks the other keys
Restrict(d, K) == [k \in (K \cap DOMAIN d) |-> d[k]]

VARIABLES
    now,         \* int(time.time())
    client,      \* None, or Some(the WithingsClient object)
    clientFile,  \* None, or Some(contents of the client parameter file)
    clientFileName, \* the name of the client parameter file last written
    clientStores, \* the number of calls of store_client_params so far
    user,        \* None, or Some(the WithingsUser object)
    userFile,    \* None, or Some(contents of user_<userid>/user_params.json)
    userDir,     \* TRUE when the directory user_<userid> exists
    last         \* the call made last: its name, outcome and side effects

vars == <<now, client, clientFile, clientFileName, clientStores, user, userFile,
          userDir, last>>

\* ------------------------------------------------------------ the record
\* of a call: op is the function called, exc the exception that left it
\* ("none" when it returned), ret what it returned, trace its side effects
\* expired tells whether expiration_time < now held when the call was made,
\* to_json is the argument of get_data_dict, rresp and dresp are the answers
\* of the token endpoint and of the data endpoint that the call has read,
\* query is the query of the redirect URL that the user has entered, args
\* are the arguments of a call of utils.py, measure.py or sleep.py, and
\* the data dict that a user is constructed from.
Call(op, exc, ret, trace, expired) ==
    [op |-> op, exc |-> exc, ret |-> ret, trace |-> trace, expired |-> expired,
     to_json |-> FALSE, rresp |-> None, dresp |-> None, query |-> None,
     args |-> None]

PostEv(url, data, headers) ==
    [ev |-> "post", url |-> url, data |-> data, headers |-> headers]
AssignEv(attr, value) == [ev |-> "assign", attr |-> attr, value |-> value]
WriteEv(file) == [ev |-> "write", file |-> file]
WarnEv(msg) == [ev |-> "warn", msg |-> msg]

\* the positions of the events of a trace that satisfy a test
Posts(trace) == {i \in 1..Len(trace) : trace[i].ev = "post"}
PostsTo(trace, url) ==
    {i \in 1..Len(trace) : trace[i].ev = "post" /\ trace[i].url = url}
DataPosts(trace) ==
    {i \in 1..Len(trace) : trace[i].ev = "post" /\ trace[i].url # URL_OAUTH2_V2}
RefreshPosts(trace) ==
    {i \in PostsTo(trace, URL_OAUTH2_V2) : trace[i].data.grant_type = "refresh_token"}
Assigns(trace, attr) ==
    {i \in 1..Len(trace) : trace[i].ev = "assign" /\ trace[i].attr = attr}
Writes(trace, file) ==
    {i \in 1..Len(trace) : trace[i].ev = "write" /\ trace[i].file = file}
Warnings(trace) == {i \in 1..Len(trace) : trace[i].ev = "warn"}

\* a post_request that sends the request again when it has failed
post_request_again(url, data, headers, resp) ==
    [exc |-> IF resp.http_ok THEN "none" ELSE "HTTPError",
     trace |-> IF resp.http_ok THEN <<PostEv(url, data, headers)>>
               ELSE <<PostEv(url, data, headers), PostEv(url, data, headers)>>,
     content |-> resp.content]

\* ------------------------------------------------------- post_request.py
\* post_request: one requests.post; raise_for_status turns a non-success
\* HTTP status into an exception that is printed and raised again.
post_request(url, data, headers, resp) ==
    [exc |-> IF resp.http_ok THEN "none" ELSE "HTTPError",
     trace |-> <<PostEv(url, data, headers)>>,
     content |-> resp.content]

\* ----------------------------------------------------- withings_client.py
ClientKeys == {"client_id", "client_secret", "redirect_uri", "state", "scope", "demo"}

\* a file name that does not depend on demo
client_params_file_name_plain(c) == "client_params.json"

\* store_client_params: the file name depends on demo; an OSError of the
\* write is printed, not raised.
client_params_file_name(c) ==
    IF c.demo THEN "client_params_demo.json" ELSE "client_params.json"

\* a store_client_params that writes the file a second time
store_client_params_twice(c, file, fname, stores, wok) ==
    [file |-> IF wok THEN Some(Restrict(c, ClientKeys)) ELSE file,
     fname |-> IF wok THEN client_params_file_name(c) ELSE fname,
     stores |-> stores + 2,
     trace |-> IF wok THEN <<WriteEv(client_params_file_name(c)),
                             WriteEv(client_params_file_name(c))>>
                      ELSE <<>>]

store_client_params(c, file, fname, stores, wok) ==
    IF wok
    THEN [file |-> Some(Restrict(c, ClientKeys)), fname |-> client_params_file_name(c),
          stores |-> stores + 1,
          trace |-> <<WriteEv(client_params_file_name(c))>>]
    ELSE [file |-> file, fname |-> fname, stores |-> stores + 1, trace |-> <<>>]

\* WithingsClient.__init__: assigns the six fields, then stores them
WithingsClientInit(st, demo, wok) ==
    /\ client = None
    /\ LET c == [client_id |-> "cid", client_secret |-> "secret",
                 redirect_uri |-> "https://redirect", state |-> st,
                 scope |-> STANDARD_SCOPE, demo |-> demo] IN
       \E s \in {store_client_params(c, clientFile, clientFileName, clientStores, wok)} :
          /\ client' = Some(c)
          /\ clientFile' = s.file
          /\ clientFileName' = s.fname
          /\ clientStores' = s.stores
          /\ last' = Call("WithingsClient.__init__", "none", None, s.trace, FALSE)
    /\ UNCHANGED <<now, user, userFile, userDir>>

\* ------------------------------------------------------- withings_user.py
CredKeys == {"userid", "access_token", "refresh_token", "scope", "token_type",
             "expiration_time"}

UserParamsFile(u) == "user_" \o u.userid \o "/user_params.json"

\* create_user_folder: makes user_<userid> unless it exists; an OSError of
\* makedirs is printed and the method then returns None.
create_user_folder(u, dir, fok) ==
    IF dir \/ fok
    THEN [ret |-> Some("user_" \o u.userid), dir |-> TRUE]
    ELSE [ret |-> None, dir |-> FALSE]

\* store_user_params: os.path.join with a user_folder of None is a
\* TypeError; an OSError of the write is printed, not raised.
user_data(u, c) == [k \in CredKeys \cup {"demo"} |-> IF k = "demo" THEN c.demo ELSE u[k]]

store_user_params(u, c, file, dir, wok) ==
    IF u.user_folder = None
    THEN [exc |-> "TypeError", file |-> file, trace |-> <<>>]
    ELSE IF dir /\ wok
         THEN [exc |-> "none", file |-> Some(user_data(u, c)),
               trace |-> <<WriteEv(UserParamsFile(u))>>]
         ELSE [exc |-> "none", file |-> file, trace |-> <<>>]

\* an expiry test that takes the second of expiry for expired
is_expired_le(u, t) == u.expiration_time <= t

\* the test made before a request and on construction from a dict:
\* expiration_time < int(time.time())
is_expired(u, t) == u.expiration_time < t

\* create_headers: " ".join([token_type, access_token])
create_headers(u) ==
    [Authorization |-> u.token_type \o " " \o u.access_token,
     ContentType |-> "application/x-www-form-urlencoded"]

\* a post_request_refresh that sends the refresh a second time
post_request_refresh_retry(u, c, resp) ==
    LET p == post_request(URL_OAUTH2_V2,
                          [action |-> "requesttoken", grant_type |-> "refresh_token",
                           client_id |-> c.client_id, client_secret |-> c.client_secret,
                           refresh_token |-> u.refresh_token],
                          None, resp)
    IN [p EXCEPT !.trace = p.trace \o p.trace]

\* post_request_refresh: the refresh-token grant, sent without headers
post_request_refresh(u, c, resp) ==
    post_request(URL_OAUTH2_V2,
                 [action |-> "requesttoken", grant_type |-> "refresh_token",
                  client_id |-> c.client_id, client_secret |-> c.client_secret,
                  refresh_token |-> u.refresh_token],
                 None, resp)

\* an expiration time that is the lifetime alone, not counted from now
new_expiration_time_lifetime(t, expires_in) == expires_in

\* int(time.time()) + res["expires_in"]
new_expiration_time(t, expires_in) == t + expires_in

\* a refresh_existing_token that reads the response with res.get and
\* returns without a change when access_token is missing
refresh_existing_token_silent(u, c, file, dir, t, resp, wok) ==
    LET p == post_request_refresh(u, c, resp)
        Fail(exc, uu, tr) == [exc |-> exc, user |-> uu, file |-> file, trace |-> tr]
    IN IF p.exc # "none" THEN Fail(p.exc, u, p.trace)
       ELSE IF "body" \notin DOMAIN p.content THEN Fail("KeyError", u, p.trace)
       ELSE LET res == p.content.body IN
       IF ~({"access_token", "refresh_token", "expires_in"} \subseteq DOMAIN res)
       THEN Fail("none", u, p.trace)
       ELSE LET e == new_expiration_time(t, res.expires_in)
                u3 == [u EXCEPT !.access_token = res.access_token,
                                !.refresh_token = res.refresh_token,
                                !.expiration_time = e]
                t3 == p.trace \o <<AssignEv("access_token", res.access_token),
                                   AssignEv("refresh_token", res.refresh_token),
                                   AssignEv("expiration_time", e)>>
                s == store_user_params(u3, c, file, dir, wok)
            IN [exc |-> s.exc, user |-> u3, file |-> s.file, trace |-> t3 \o s.trace]

\* refresh_existing_token at time t: the three assignments are made one
\* after the other, each after its own res[...] lookup, and the file is
\* stored last.
refresh_existing_token(u, c, file, dir, t, resp, wok) ==
    LET p == post_request_refresh(u, c, resp)
        Fail(exc, uu, tr) == [exc |-> exc, user |-> uu, file |-> file, trace |-> tr]
    IN IF p.exc # "none" THEN Fail(p.exc, u, p.trace)
       ELSE IF "body" \notin DOMAIN p.content THEN Fail("KeyError", u, p.trace)
       ELSE LET res == p.content.body IN
       IF "access_token" \notin DOMAIN res THEN Fail("KeyError", u, p.trace)
       ELSE LET u1 == [u EXCEPT !.access_token = res.access_token]
                t1 == Append(p.trace, AssignEv("access_token", res.access_token)) IN
       IF "refresh_token" \notin DOMAIN res THEN Fail("KeyError", u1, t1)
       ELSE LET u2 == [u1 EXCEPT !.refresh_token = res.refresh_token]
                t2 == Append(t1, AssignEv("refresh_token", res.refresh_token)) IN
       IF "expires_in" \notin DOMAIN res THEN Fail("KeyError", u2, t2)
       ELSE LET e == new_expiration_time(t, res.expires_in)
                u3 == [u2 EXCEPT !.expiration_time = e]
                t3 == Append(t2, AssignEv("expiration_time", e))
                s == store_user_params(u3, c, file, dir, wok)
            IN [exc |-> s.exc, user |-> u3, file |-> s.file, trace |-> t3 \o s.trace]

\* what the token endpoint may answer to a refresh: an HTTP failure, a JSON
\* object without "body", or a body that holds the three keys or lacks
\* some of them.  The keys are read in the order access_token,
\* refresh_token, expires_in and nothing is read after the first missing
\* one, so a body that lacks a key is given without the keys after it.
RefreshKeys == <<"access_token", "refresh_token", "expires_in">>
RefreshBodies ==
    {Restrict(b, {RefreshKeys[i] : i \in 1..n}) :
        b \in {[access_token |-> p.access_token, refresh_token |-> p.refresh_token,
                expires_in |-> e] : p \in TokenPairs, e \in ExpiresInVals},
        n \in 0..3}
RefreshResponses ==
    {[http_ok |-> FALSE, content |-> <<>>], [http_ok |-> TRUE, content |-> <<>>]}
    \cup {[http_ok |-> TRUE, content |-> [body |-> b]] : b \in RefreshBodies}

\* ---------------------------------------------- WithingsClient, continued
\* create_auth_url: the authorization URL, as its query parameters
create_auth_url(c) ==
    LET auth_params == [response_type |-> "code", client_id |-> c.client_id,
                        scope |-> c.scope, redirect_uri |-> c.redirect_uri,
                        state |-> c.state]
    IN IF c.demo
       THEN [k \in DOMAIN auth_params \cup {"mode"} |->
                IF k = "mode" THEN "demo" ELSE auth_params[k]]
       ELSE auth_params

\* post_request_access: the authorization-code grant, sent without headers
post_request_access(c, code, resp) ==
    post_request(URL_OAUTH2_V2,
                 [action |-> "requesttoken", grant_type |-> "authorization_code",
                  client_id |-> c.client_id, client_secret |-> c.client_secret,
                  code |-> code, redirect_uri |-> c.redirect_uri],
                 None, resp)

\* an access_new_token that does not compare the returned state
access_new_token_unchecked(c, query, resp) ==
    LET Fail(exc, tr) == [exc |-> exc, ret |-> None, trace |-> tr]
    IN IF "state" \notin DOMAIN query THEN Fail("TypeError", <<>>)
       ELSE IF "code" \notin DOMAIN query THEN Fail("TypeError", <<>>)
       ELSE LET p == post_request_access(c, query.code, resp)
            IN IF p.exc # "none" THEN Fail(p.exc, p.trace)
               ELSE [exc |-> "none", ret |-> Some(p.content), trace |-> p.trace]

\* access_new_token: query is the query of the URL the user typed in, as a
\* dict; parse_qs(...).get(k)[0] on a missing parameter is a TypeError.
access_new_token(c, query, resp) ==
    LET Fail(exc, tr) == [exc |-> exc, ret |-> None, trace |-> tr]
    IN IF "state" \notin DOMAIN query THEN Fail("TypeError", <<>>)
       ELSE IF query.state # c.state THEN Fail("ValueError", <<>>)
       ELSE IF "code" \notin DOMAIN query THEN Fail("TypeError", <<>>)
       ELSE LET p == post_request_access(c, query.code, resp)
            IN IF p.exc # "none" THEN Fail(p.exc, p.trace)
               ELSE [exc |-> "none", ret |-> Some(p.content), trace |-> p.trace]

RedirectQueries ==
    {Restrict(q, K) : q \in [state : StateVals, code : {"code1"}],
                      K \in SUBSET {"state", "code"}}

\* what the token endpoint may answer to the authorization-code grant
GrantKeys == CredKeys \cup {"expires_in"}
GrantBodies ==
    {Restrict(b, K) :
        b \in {[userid |-> "u1", access_token |-> p.access_token,
                refresh_token |-> p.refresh_token, scope |-> STANDARD_SCOPE,
                token_type |-> "Bearer", expiration_time |-> 0, expires_in |-> e] :
                p \in TokenPairs, e \in ExpiresInVals},
        K \in {GrantKeys} \cup {GrantKeys \ {k} : k \in GrantKeys}}
GrantResponses ==
    {[http_ok |-> FALSE, content |-> <<>>], [http_ok |-> TRUE, content |-> <<>>]}
    \cup {[http_ok |-> TRUE, content |-> [body |-> b]] : b \in GrantBodies}

\* ------------------------------------------------ WithingsUser.__init__
\* The object under construction has no user_folder attribute until
\* create_user_folder is assigned to it.
NewUser(d) == [k \in CredKeys \cup {"user_folder"} |->
                  IF k = "user_folder" THEN None ELSE d[k]]

\* the last two lines of __init__: create_user_folder, store_user_params
init_finish(u, c, file, dir, tr, fok, wok) ==
    LET f == create_user_folder(u, dir, fok)
        u1 == [u EXCEPT !.user_folder = f.ret]
        s == store_user_params(u1, c, file, f.dir, wok)
    IN [exc |-> s.exc, user |-> IF s.exc = "none" THEN Some(u1) ELSE None,
        file |-> s.file, dir |-> f.dir, trace |-> tr \o s.trace]

\* __init__ with data: in holds the outcomes of the environment, fok1/wok1
\* for the refresh branch, fok2/wok2 for the last two lines
init_data(c, data, file, dir, t, in) ==
    LET Fail(exc, ff, dd, tr) ==
            [exc |-> exc, user |-> None, file |-> ff, dir |-> dd, trace |-> tr]
    IN IF ~(CredKeys \subseteq DOMAIN data) THEN Fail("KeyError", file, dir, <<>>)
       ELSE LET u == NewUser(data) IN
       IF is_expired(u, t)
       THEN LET f == create_user_folder(u, dir, in.fok1)
                u1 == [u EXCEPT !.user_folder = f.ret]
                r == refresh_existing_token(u1, c, file, f.dir, t, in.refresh, in.wok1)
            IN IF r.exc # "none" THEN Fail(r.exc, r.file, f.dir, r.trace)
               ELSE init_finish(r.user, c, r.file, f.dir, r.trace, in.fok2, in.wok2)
       ELSE init_finish(u, c, file, dir, <<>>, in.fok2, in.wok2)

\* an initial grant that keeps the expiration_time of the token data and
\* does not count expires_in from now
init_grant_as_given(c, file, dir, t, in) ==
    LET Fail(exc, tr) ==
            [exc |-> exc, user |-> None, file |-> file, dir |-> dir, trace |-> tr]
        a == access_new_token(c, in.query, in.grant)
    IN IF a.exc # "none" THEN Fail(a.exc, a.trace)
       ELSE IF "body" \notin DOMAIN a.ret[1] THEN Fail("KeyError", a.trace)
       ELSE LET token_data == a.ret[1].body IN
       IF ~(CredKeys \subseteq DOMAIN token_data) THEN Fail("KeyError", a.trace)
       ELSE init_finish(NewUser(token_data), c, file, dir, a.trace, in.fok2, in.wok2)

\* __init__ without data: the interactive authorization-code grant
init_grant(c, file, dir, t, in) ==
    LET Fail(exc, tr) ==
            [exc |-> exc, user |-> None, file |-> file, dir |-> dir, trace |-> tr]
        a == access_new_token(c, in.query, in.grant)
    IN IF a.exc # "none" THEN Fail(a.exc, a.trace)
       ELSE IF "body" \notin DOMAIN a.ret[1] THEN Fail("KeyError", a.trace)
       ELSE LET token_data == a.ret[1].body IN
       IF ~(CredKeys \subseteq DOMAIN token_data) THEN Fail("KeyError", a.trace)
       ELSE IF "expires_in" \notin DOMAIN token_data THEN Fail("KeyError", a.trace)
       ELSE LET u == [NewUser(token_data) EXCEPT
                        !.expiration_time = new_expiration_time(t, token_data.expires_in)]
            IN init_finish(u, c, file, dir, a.trace, in.fok2, in.wok2)

\* from_dict: the keys are checked before the constructor is called
from_dict(c, data, file, dir, t, in) ==
    IF ~(CredKeys \subseteq DOMAIN data)
    THEN [exc |-> "KeyError", user |-> None, file |-> file, dir |-> dir, trace |-> <<>>]
    ELSE init_data(c, data, file, dir, t, in)

\* the dicts a WithingsUser is constructed from
UserDicts ==
    {Restrict(d, K) :
        d \in {[userid |-> "u1", access_token |-> p.access_token,
                refresh_token |-> p.refresh_token, scope |-> STANDARD_SCOPE,
                token_type |-> "Bearer", expiration_time |-> e] :
                p \in TokenPairs, e \in Times},
        K \in {CredKeys, CredKeys \ {"refresh_token"}}}

\* ------------------------------------------- post_request.get_data_dict
\* url.split('/')[-1] for the URLs of CONSTANTS.py
LastSegment(url) ==
    CASE url = URL_MEASURE -> "measure"
      [] url = URL_MEASURE_V2 -> "measure"
      [] url = URL_HEART_V2 -> "heart"
      [] url = URL_SLEEP_V2 -> "sleep"
      [] OTHER -> "oauth2"

\* WithingsStatusNotZeroError.__init__ builds its message from
\* dct['status'] and dct['error'] before the exception can be raised
WithingsStatusNotZeroError(data, url, dct) ==
    IF "error" \in DOMAIN dct /\ "status" \in DOMAIN dct
    THEN "WithingsStatusNotZeroError"
    ELSE "KeyError"

\* a get_data_dict that refreshes before every request
get_data_dict_eager(u, c, file, dir, t, data, url, to_json, rresp, dresp, wok, wok2) ==
    LET r == refresh_existing_token(u, c, file, dir, t, rresp, wok)
        Out(exc, ret, tr) ==
            [exc |-> exc, ret |-> ret, user |-> r.user, file |-> r.file, trace |-> tr]
    IN IF r.exc # "none" THEN Out(r.exc, None, r.trace)
       ELSE LET headers == create_headers(r.user)
                p == post_request(url, data, Some(headers), dresp)
                tr == r.trace \o p.trace
                dct == p.content IN
       IF p.exc # "none" THEN Out(p.exc, None, tr)
       ELSE IF "status" \notin DOMAIN dct THEN Out("KeyError", None, tr)
       ELSE IF dct.status # 0
            THEN Out(WithingsStatusNotZeroError(data, url, dct), None, tr)
       ELSE LET filename == LastSegment(url) \o "_" \o data.action \o ".json"
                tw == IF to_json /\ dir /\ wok2 THEN Append(tr, WriteEv(filename)) ELSE tr IN
       IF "body" \notin DOMAIN dct THEN Out("KeyError", None, tw)
       ELSE Out("none", Some(dct.body), tw)

\* a get_data_dict that builds its headers before it refreshes
get_data_dict_stale_headers(u, c, file, dir, t, data, url, to_json, rresp, dresp, wok, wok2) ==
    LET headers == create_headers(u)
        r == IF is_expired(u, t)
             THEN refresh_existing_token(u, c, file, dir, t, rresp, wok)
             ELSE [exc |-> "none", user |-> u, file |-> file, trace |-> <<>>]
        Out(exc, ret, tr) ==
            [exc |-> exc, ret |-> ret, user |-> r.user, file |-> r.file, trace |-> tr]
    IN IF r.exc # "none" THEN Out(r.exc, None, r.trace)
       ELSE LET p == post_request(url, data, Some(headers), dresp)
                tr == r.trace \o p.trace
                dct == p.content IN
       IF p.exc # "none" THEN Out(p.exc, None, tr)
       ELSE IF "status" \notin DOMAIN dct THEN Out("KeyError", None, tr)
       ELSE IF dct.status # 0
            THEN Out(WithingsStatusNotZeroError(data, url, dct), None, tr)
       ELSE LET filename == LastSegment(url) \o "_" \o data.action \o ".json"
                tw == IF to_json /\ dir /\ wok2 THEN Append(tr, WriteEv(filename)) ELSE tr IN
       IF "body" \notin DOMAIN dct THEN Out("KeyError", None, tw)
       ELSE Out("none", Some(dct.body), tw)

\* a get_data_dict that catches the error of the refresh and sends the
\* data request with the token it has
get_data_dict_fallback(u, c, file, dir, t, data, url, to_json, rresp, dresp, wok, wok2) ==
    LET r == IF is_expired(u, t)
             THEN refresh_existing_token(u, c, file, dir, t, rresp, wok)
             ELSE [exc |-> "none", user |-> u, file |-> file, trace |-> <<>>]
        Out(exc, ret, tr) ==
            [exc |-> exc, ret |-> ret, user |-> r.user, file |-> r.file, trace |-> tr]
        headers == create_headers(r.user)
        p == post_request(url, data, Some(headers), dresp)
        tr == r.trace \o p.trace
        dct == p.content
    IN IF p.exc # "none" THEN Out(p.exc, None, tr)
       ELSE IF "status" \notin DOMAIN dct THEN Out("KeyError", None, tr)
       ELSE IF dct.status # 0
            THEN Out(WithingsStatusNotZeroError(data, url, dct), None, tr)
       ELSE LET filename == LastSegment(url) \o "_" \o data.action \o ".json"
                tw == IF to_json /\ dir /\ wok2 THEN Append(tr, WriteEv(filename)) ELSE tr IN
       IF "body" \notin DOMAIN dct THEN Out("KeyError", None, tw)
       ELSE Out("none", Some(dct.body), tw)

\* get_data_dict at time t.  rresp answers the refresh, dresp the data
\* request; wok and wok2 tell whether the two file writes can succeed.
get_data_dict(u, c, file, dir, t, data, url, to_json, rresp, dresp, wok, wok2) ==
    LET r == IF is_expired(u, t)
             THEN refresh_existing_token(u, c, file, dir, t, rresp, wok)
             ELSE [exc |-> "none", user |-> u, file |-> file, trace |-> <<>>]
        Out(exc, ret, tr) ==
            [exc |-> exc, ret |-> ret, user |-> r.user, file |-> r.file, trace |-> tr]
    IN IF r.exc # "none" THEN Out(r.exc, None, r.trace)
       ELSE LET headers == create_headers(r.user)
                p == post_request(url, data, Some(headers), dresp)
                tr == r.trace \o p.trace
                dct == p.content IN
       IF p.exc # "none" THEN Out(p.exc, None, tr)
       ELSE IF "status" \notin DOMAIN dct THEN Out("KeyError", None, tr)
       ELSE IF dct.status # 0
            THEN Out(WithingsStatusNotZeroError(data, url, dct), None, tr)
       ELSE LET filename == LastSegment(url) \o "_" \o data.action \o ".json"
                \* open(..., "w") creates or empties the file before
                \* json.dump(dct["body"], ...) is evaluated
                tw == IF to_json /\ dir /\ wok2 THEN Append(tr, WriteEv(filename)) ELSE tr IN
       IF "body" \notin DOMAIN dct THEN Out("KeyError", None, tw)
       ELSE Out("none", Some(dct.body), tw)

\* what a data endpoint may answer
DataResponses ==
    {[http_ok |-> FALSE, content |-> <<>>]}
    \cup {[http_ok |-> TRUE, content |-> d] :
            d \in {[status |-> 0, body |-> "body1"],
                   [status |-> 0],
                   [body |-> "body1"],
                   [status |-> 401, body |-> "", error |-> "invalid_token"],
                   [status |-> 401, body |-> ""]}}

Requests == {[action |-> "getsummary"]}
DataUrls == {URL_SLEEP_V2}

\* a refresh response with which refresh_existing_token reaches its
\* store_user_params: only then does the outcome of the write matter
Storing(resp) ==
    /\ resp.http_ok
    /\ "body" \in DOMAIN resp.content
    /\ {"access_token", "refresh_token", "expires_in"} \subseteq DOMAIN resp.content.body

\* a response that is never read
Unread == [http_ok |-> FALSE, content |-> <<>>]

\* the responses to a call that hands the response on unread: the request
\* succeeded at HTTP level or it did not
HttpOutcomes == {[http_ok |-> FALSE, content |-> <<>>], [http_ok |-> TRUE, content |-> <<>>]}

\* ------------------------------------------- the sender of measure.py
\* dict["action"], with dict the builtin class: dict.__class_getitem__
\* returns the generic alias dict['action'] (Python 3.9 and later; the
\* package does not import on an earlier one)
dict_class_getitem(key) == [origin |-> "dict", args |-> <<key>>]

\* alias == s, with s a str: a generic alias is equal to a generic alias
\* with the same origin and arguments, and to nothing else
GenericAliasEqStr(alias, s) == FALSE

\* post_request_measure: the URL is chosen by the test of dict["action"],
\* not of data["action"]
post_request_measure(u, c, file, dir, t, data, to_json, rresp, dresp, wok, wok2) ==
    LET url == IF GenericAliasEqStr(dict_class_getitem("action"), "getmeas")
               THEN URL_MEASURE
               ELSE URL_MEASURE_V2
    IN get_data_dict(u, c, file, dir, t, data, url, to_json, rresp, dresp, wok, wok2)

\* the requests of the builders of measure.py, by their action
MeasureRequests ==
    {[action |-> a] : a \in {"getmeas", "getactivity", "getintradayactivity",
                             "getworkouts"}}

\* ------------------------------------------------------------ the actions
\* The result of a call is bound by \E r \in {...}: the one element of the
\* set is the result.
ClientFrame == UNCHANGED <<client, clientFile, clientFileName, clientStores>>

\* WithingsUser(api_client): the interactive grant
WithingsUserInitGrant ==
    /\ client # None /\ user = None
    /\ \E query \in RedirectQueries, grant \in GrantResponses, fok2, wok2 \in BOOLEAN :
       \E r \in {init_grant(client[1], userFile, userDir, now,
                            [query |-> query, grant |-> grant, fok2 |-> fok2,
                             wok2 |-> wok2])} :
            /\ user' = r.user
            /\ userFile' = r.file
            /\ userDir' = r.dir
            /\ last' = [Call("WithingsUser.__init__", r.exc, None, r.trace, FALSE)
                        EXCEPT !.rresp = IF Posts(r.trace) # {} THEN Some(grant)
                                                               ELSE None,
                               !.query = Some(query)]
    /\ ClientFrame
    /\ UNCHANGED now

\* WithingsUser(api_client, data) and WithingsUser.from_dict(api, data)
WithingsUserInitData ==
    /\ client # None /\ user = None
    /\ \E data \in UserDicts, viaFromDict \in BOOLEAN :
         LET expired == "expiration_time" \in DOMAIN data /\ data.expiration_time < now
             complete == CredKeys \subseteq DOMAIN data IN
         \E refresh \in (IF expired /\ complete THEN RefreshResponses ELSE {Unread}),
            fok1 \in (IF expired /\ complete /\ ~userDir THEN BOOLEAN ELSE {TRUE}) :
         \E wok1 \in (IF expired /\ complete /\ Storing(refresh) THEN BOOLEAN ELSE {TRUE}),
            fok2 \in (IF complete /\ ~userDir /\ ~expired THEN BOOLEAN ELSE {TRUE}),
            wok2 \in (IF complete /\ (~expired \/ Storing(refresh))
                      THEN BOOLEAN ELSE {TRUE}) :
         LET in == [refresh |-> refresh, fok1 |-> fok1, wok1 |-> wok1,
                    fok2 |-> fok2, wok2 |-> wok2] IN
         \E r \in {IF viaFromDict
                   THEN from_dict(client[1], data, userFile, userDir, now, in)
                   ELSE init_data(client[1], data, userFile, userDir, now, in)} :
            /\ user' = r.user
            /\ userFile' = r.file
            /\ userDir' = r.dir
            /\ last' = [Call(IF viaFromDict THEN "WithingsUser.from_dict"
                                            ELSE "WithingsUser.__init__",
                             r.exc, None, r.trace, expired)
                        EXCEPT !.rresp = IF expired /\ complete THEN Some(refresh)
                                                                ELSE None,
                               !.args = Some(data)]
    /\ ClientFrame
    /\ UNCHANGED now

CreateUserFolder ==
    /\ user # None
    /\ \E fok \in (IF userDir THEN {TRUE} ELSE BOOLEAN) :
       \E f \in {create_user_folder(user[1], userDir, fok)} :
            /\ userDir' = f.dir
            /\ last' = Call("create_user_folder", "none", f.ret, <<>>, FALSE)
    /\ ClientFrame
    /\ UNCHANGED <<now, user, userFile>>

StoreUserParams ==
    /\ user # None
    /\ \E wok \in BOOLEAN :
       \E s \in {store_user_params(user[1], client[1], userFile, userDir, wok)} :
            /\ userFile' = s.file
            /\ last' = Call("store_user_params", s.exc, None, s.trace, FALSE)
    /\ ClientFrame
    /\ UNCHANGED <<now, user, userDir>>

CreateHeaders ==
    /\ user # None
    /\ last' = Call("create_headers", "none", Some(create_headers(user[1])), <<>>, FALSE)
    /\ ClientFrame
    /\ UNCHANGED <<now, user, userFile, userDir>>

PostRequestRefresh ==
    /\ user # None
    /\ \E resp \in HttpOutcomes :
       \E p \in {post_request_refresh(user[1], client[1], resp)} :
            last' = Call("post_request_refresh", p.exc, None, p.trace, FALSE)
    /\ ClientFrame
    /\ UNCHANGED <<now, user, userFile, userDir>>

RefreshExistingToken ==
    /\ user # None
    /\ \E resp \in RefreshResponses :
       \E wok \in (IF Storing(resp) THEN BOOLEAN ELSE {TRUE}) :
       \E r \in {refresh_existing_token(user[1], client[1], userFile, userDir,
                                        now, resp, wok)} :
            /\ user' = Some(r.user)
            /\ userFile' = r.file
            /\ last' = [Call("refresh_existing_token", r.exc, None, r.trace,
                             user[1].expiration_time < now)
                        EXCEPT !.rresp = Some(resp)]
    /\ ClientFrame
    /\ UNCHANGED <<now, userDir>>

GetDataDict ==
    /\ user # None
    /\ LET expired == user[1].expiration_time < now
           \* the token endpoint is asked when the test of line 64 passes
           refreshing == is_expired(user[1], now) IN
       \E data \in Requests, url \in DataUrls, to_json \in BOOLEAN,
          rresp \in (IF refreshing THEN RefreshResponses ELSE {Unread}) :
       \E wok \in (IF refreshing /\ Storing(rresp) THEN BOOLEAN ELSE {TRUE}) :
       \E dresp \in (IF refreshing /\ ~Storing(rresp) THEN {Unread} ELSE DataResponses) :
       \E wok2 \in (IF to_json /\ dresp.http_ok /\ "status" \in DOMAIN dresp.content
                    THEN BOOLEAN ELSE {TRUE}) :
       \E r \in {get_data_dict(user[1], client[1], userFile, userDir, now,
                               data, url, to_json, rresp, dresp, wok, wok2)} :
            /\ user' = Some(r.user)
            /\ userFile' = r.file
            /\ last' = [Call("get_data_dict", r.exc, r.ret, r.trace, expired)
                        EXCEPT !.to_json = to_json,
                               !.rresp = IF refreshing THEN Some(rresp) ELSE None,
                               !.dresp = IF refreshing /\ ~Storing(rresp)
                                         THEN None ELSE Some(dresp)]
    /\ ClientFrame
    /\ UNCHANGED <<now, userDir>>

CreateAuthUrl ==
    /\ client # None
    /\ last' = Call("create_auth_url", "none", Some(create_auth_url(client[1])), <<>>, FALSE)
    /\ ClientFrame
    /\ UNCHANGED <<now, user, userFile, userDir>>

PostRequestAccess ==
    /\ client # None
    /\ \E resp \in HttpOutcomes :
       \E p \in {post_request_access(client[1], "code1", resp)} :
            last' = Call("post_request_access", p.exc, None, p.trace, FALSE)
    /\ ClientFrame
    /\ UNCHANGED <<now, user, userFile, userDir>>

AccessNewToken ==
    /\ client # None
    /\ \E query \in RedirectQueries, resp \in HttpOutcomes :
       \E a \in {access_new_token(client[1], query, resp)} :
            last' = [Call("access_new_token", a.exc, None, a.trace, FALSE)
                     EXCEPT !.query = Some(query)]
    /\ ClientFrame
    /\ UNCHANGED <<now, user, userFile, userDir>>

\* ------------------------------------------------------------- the clock
Tick ==
    /\ now < MaxTime
    /\ now' = now + 1
    /\ UNCHANGED <<client, clientFile, clientFileName, clientStores, user, userFile,
                   userDir, last>>

Init ==
    /\ now = 0
    /\ client = None
    /\ clientFile = None
    /\ clientFileName = "none"
    /\ clientStores = 0
    /\ user = None
    /\ userFile = None
    /\ userDir = FALSE
    /\ last = Call("none", "none", None, <<>>, FALSE)

Next ==
    \/ Tick
    \/ \E st \in ClientStates, demo \in BOOLEAN : WithingsClientInit(st, demo, TRUE)
    \/ WithingsUserInitGrant
    \/ WithingsUserInitData
    \/ CreateUserFolder
    \/ StoreUserParams
    \/ CreateHeaders
    \/ PostRequestRefresh
    \/ RefreshExistingToken
    \/ GetDataDict
    \/ CreateAuthUrl
    \/ PostRequestAccess
    \/ AccessNewToken

Spec == Init /\ [][Next]_vars

\* The client alone, with every state parameter and with a parameter file
\* whose write can fail.
NextClient ==
    \/ Tick
    \/ \E st \in StateVals, demo \in BOOLEAN, wok \in BOOLEAN :
          WithingsClientInit(st, demo, wok)
    \/ CreateAuthUrl
    \/ PostRequestAccess
    \/ AccessNewToken

SpecClient == Init /\ [][NextClient]_vars

\* --------------------------------------------- the calls of the sender
PostRequestMeasure ==
    /\ user # None
    /\ LET expired == user[1].expiration_time < now
           refreshing == is_expired(user[1], now) IN
       \E data \in MeasureRequests, to_json \in BOOLEAN,
          rresp \in (IF refreshing THEN RefreshResponses ELSE {Unread}) :
       \E wok \in (IF refreshing /\ Storing(rresp) THEN BOOLEAN ELSE {TRUE}) :
       \E dresp \in (IF refreshing /\ ~Storing(rresp) THEN {Unread} ELSE DataResponses) :
       \E wok2 \in (IF to_json /\ dresp.http_ok /\ "status" \in DOMAIN dresp.content
                    THEN BOOLEAN ELSE {TRUE}) :
       \E r \in {post_request_measure(user[1], client[1], userFile, userDir, now,
                                      data, to_json, rresp, dresp, wok, wok2)} :
            /\ user' = Some(r.user)
            /\ userFile' = r.file
            /\ last' = [Call("post_request_measure", r.exc, r.ret, r.trace, expired)
                        EXCEPT !.to_json = to_json,
                               !.rresp = IF refreshing THEN Some(rresp) ELSE None,
                               !.dresp = IF refreshing /\ ~Storing(rresp)
                                         THEN None ELSE Some(dresp),
                               !.args = Some(data)]
    /\ ClientFrame
    /\ UNCHANGED <<now, userDir>>

\* A user made from a dict who sends the requests of measure.py.
NextSenders ==
    \/ Tick
    \/ \E st \in ClientStates, demo \in BOOLEAN : WithingsClientInit(st, demo, TRUE)
    \/ WithingsUserInitData
    \/ PostRequestMeasure

SpecSenders == Init /\ [][NextSenders]_vars

\* ---------------------------------------------------------------- utils.py
\* Unix timestamps given to the request builders: 0, one hour, 25 hours
\* and 50 hours after it
Timestamps == {0, 3600, 90000, 180000}
OptTimestamps == {None} \cup {Some(t) : t \in Timestamps}

DATE_ORDER_WARNING_STR ==
    "Start and end are in the wrong order. No data will be returned."

\* dt.date.fromtimestamp: the day of the timestamp, its time of day removed
fromtimestamp(t) == [ymd |-> t \div 86400]

warn_if_end_before_start(start, end) ==
    IF start # None /\ end # None /\ end[1] < start[1]
    THEN <<WarnEv(DATE_ORDER_WARNING_STR)>> ELSE <<>>

\* a handle_start_end_update_ymd that tests the parameters by their truth
\* value, for which the timestamp 0 is a missing parameter
handle_start_end_update_ymd_truthy(startdate, enddate, lastupdate) ==
    LET given(x) == x # None /\ x # Some(0)
    IN IF (~given(startdate) \/ ~given(enddate)) /\ ~given(lastupdate)
       THEN [exc |-> "ValueError", ret |-> None, trace |-> <<>>]
       ELSE IF (given(startdate) \/ given(enddate)) /\ given(lastupdate)
       THEN [exc |-> "ValueError", ret |-> None, trace |-> <<>>]
       ELSE IF given(startdate) /\ given(enddate)
       THEN [exc |-> "none",
             ret |-> Some(<<Some(fromtimestamp(startdate[1])),
                            Some(fromtimestamp(enddate[1])), lastupdate>>),
             trace |-> warn_if_end_before_start(startdate, enddate)]
       ELSE [exc |-> "none", ret |-> Some(<<None, None, lastupdate>>), trace |-> <<>>]

\* handle_start_end_update_ymd: the returned triple is
\* <<startdateymd, enddateymd, lastupdate>>
handle_start_end_update_ymd(startdate, enddate, lastupdate) ==
    IF (startdate = None \/ enddate = None) /\ lastupdate = None
    THEN [exc |-> "ValueError", ret |-> None, trace |-> <<>>]
    ELSE IF (startdate # None \/ enddate # None) /\ lastupdate # None
    THEN [exc |-> "ValueError", ret |-> None, trace |-> <<>>]
    ELSE IF startdate # None /\ enddate # None
    THEN [exc |-> "none",
          ret |-> Some(<<Some(fromtimestamp(startdate[1])),
                         Some(fromtimestamp(enddate[1])), lastupdate>>),
          trace |-> warn_if_end_before_start(startdate, enddate)]
    ELSE [exc |-> "none", ret |-> Some(<<None, None, lastupdate>>), trace |-> <<>>]

START_EQUALS_END_WARNING_STR == "Start and end are equal. No data will be returned."

TIME_DIFF_GREATER_24H_WARNING_STR ==
    "Time difference between start and end greater than 24h. "
    \o "Only data for first 24h after startdate will be returned."

warn_if_start_equals_end(start, end) ==
    IF start # None /\ end # None /\ start[1] = end[1]
    THEN <<WarnEv(START_EQUALS_END_WARNING_STR)>> ELSE <<>>

\* warn_if_time_diff_greater_24h computes end - start without a test for
\* None: int - None is a TypeError
warn_if_time_diff_greater_24h(start, end) ==
    IF start = None \/ end = None
    THEN [exc |-> "TypeError", trace |-> <<>>]
    ELSE [exc |-> "none",
          trace |-> IF end[1] - start[1] > 24 * 3600
                    THEN <<WarnEv(TIME_DIFF_GREATER_24H_WARNING_STR)>> ELSE <<>>]

\* ------------------------------------------------------------ CONSTANTS.py
MEASURE_GET_ACTIVITY_DATA_FIELDS ==
    <<"steps", "distance", "elevation", "soft", "moderate", "intense", "active",
      "calories", "totalcalories", "hr_average", "hr_min", "hr_max", "hr_zone_0",
      "hr_zone_1", "hr_zone_2", "hr_zone_3">>

MEASURE_GET_INTRADAYACTIVITY_DATA_FIELDS ==
    <<"steps", "elevation", "calories", "distance", "stroke", "pool_lap",
      "duration", "heart_rate", "spo2_auto">>

MEASURE_GET_WORKOUTS_DATA_FIELDS ==
    <<"calories", "intensity", "manual_distance", "manual_calories", "hr_average",
      "hr_min", "hr_max", "hr_zone_0", "hr_zone_1", "hr_zone_2", "hr_zone_3",
      "pause_duration", "algo_pause_duration", "spo2_average", "steps", "distance",
      "elevation", "pool_laps", "strokes", "pool_length">>

SLEEP_GET_DATA_FIELDS == <<"hr", "rr", "snoring", "sdnn_1", "rmssd", "mvt_score">>

SLEEP_SUMMARY_DATA_FIELDS ==
    <<"nb_rem_episodes", "sleep_efficiency", "sleep_latency", "total_sleep_time",
      "total_timeinbed", "wakeup_latency", "waso", "apnea_hypopnea_index",
      "breathing_disturbances_intensity", "asleepduration", "deepsleepduration",
      "durationtosleep", "durationtowakeup", "hr_average", "hr_max", "hr_min",
      "lightsleepduration", "mvt_active_duration", "mvt_score_avg", "night_events",
      "out_of_bed_count", "remsleepduration", "rr_average", "rr_max", "rr_min",
      "sleep_score", "snoring", "snoringepisodecount", "wakeupcount",
      "wakeupduration", "withings_index">>

\* ----------------------------------------------- measure.py and sleep.py
Range(seq) == {seq[i] : i \in 1..Len(seq)}

\* ",".join(seq)
RECURSIVE Join(_)
Join(seq) ==
    IF seq = <<>> THEN ""
    ELSE IF Len(seq) = 1 THEN seq[1]
    ELSE seq[1] \o "," \o Join(Tail(seq))

\* list.remove(x): the list without the first element equal to x
RemoveFirst(lst, x) ==
    LET k == CHOOSE i \in 1..Len(lst) : lst[i] = x /\ \A j \in 1..(i - 1) : lst[j] # x
    IN [i \in 1..(Len(lst) - 1) |-> IF i < k THEN lst[i] ELSE lst[i + 1]]

\* the messages of the two kinds of warning for an invalid data field
InvalidFieldMsg(data_field) ==
    data_field \o " is not a valid data field and will not be sent in the request."
\* fct_name.removeprefix("data_") for the two builders of sleep.py
RemoveDataPrefix(fct_name) ==
    CASE fct_name = "data_sleep_get" -> "sleep_get"
      [] fct_name = "data_sleep_summary" -> "sleep_summary"
      [] OTHER -> fct_name
InvalidDataFieldWarning(fct_name, data_field) ==
    data_field \o " is not a valid data field for " \o RemoveDataPrefix(fct_name)
    \o " and will not be used in the request."

\* for data_field in data_fields: if it is not in fields, warn and
\* data_fields.remove(data_field).  The iterator of a list keeps an index:
\* i is the position it reads next, in the list as it is by then.
\* fct is the builder that runs the loop: those of sleep.py warn with an
\* InvalidDataFieldWarning, those of measure.py with a plain message.
FieldWarning(fct, data_field) ==
    IF fct \in {"data_sleep_get", "data_sleep_summary"}
    THEN WarnEv(InvalidDataFieldWarning(fct, data_field))
    ELSE WarnEv(InvalidFieldMsg(data_field))

RECURSIVE remove_invalid(_, _, _, _, _)
remove_invalid(data_fields, fields, fct, i, warned) ==
    IF i > Len(data_fields)
    THEN [data_fields |-> data_fields, trace |-> warned]
    ELSE IF data_fields[i] \notin Range(fields)
    THEN remove_invalid(RemoveFirst(data_fields, data_fields[i]), fields, fct, i + 1,
                        Append(warned, FieldWarning(fct, data_fields[i])))
    ELSE remove_invalid(data_fields, fields, fct, i + 1, warned)

BuilderFail(exc, tr) == [exc |-> exc, ret |-> None, trace |-> tr]

data_measure_get_activity(startdate, enddate, lastupdate, offset, data_fields) ==
    LET h == handle_start_end_update_ymd(startdate, enddate, lastupdate)
    IN IF h.exc # "none" THEN BuilderFail(h.exc, h.trace)
       ELSE LET f == remove_invalid(data_fields, MEASURE_GET_ACTIVITY_DATA_FIELDS,
                                    "data_measure", 1, <<>>)
                kept == IF Len(f.data_fields) = 0 THEN MEASURE_GET_ACTIVITY_DATA_FIELDS
                                                  ELSE f.data_fields
            IN [exc |-> "none",
                ret |-> Some([action |-> "getactivity", startdateymd |-> h.ret[1][1],
                              enddateymd |-> h.ret[1][2], lastupdate |-> h.ret[1][3],
                              offset |-> offset, data_fields |-> Join(kept)]),
                trace |-> h.trace \o f.trace]

\* data_measure_get_intradayactivity tests the names against the fields of
\* getactivity and falls back to them
data_measure_get_intradayactivity(startdate, enddate, lastupdate, data_fields) ==
    IF startdate = None /\ enddate = None THEN BuilderFail("ValueError", <<>>)
    ELSE LET w1 == warn_if_end_before_start(startdate, enddate)
             w2 == warn_if_start_equals_end(startdate, enddate)
             w3 == warn_if_time_diff_greater_24h(startdate, enddate)
         IN IF w3.exc # "none" THEN BuilderFail(w3.exc, w1 \o w2)
            ELSE LET f == remove_invalid(data_fields, MEASURE_GET_ACTIVITY_DATA_FIELDS,
                                         "data_measure", 1, <<>>)
                     kept == IF Len(f.data_fields) = 0
                             THEN MEASURE_GET_ACTIVITY_DATA_FIELDS ELSE f.data_fields
                 IN [exc |-> "none",
                     ret |-> Some([action |-> "getintradayactivity",
                                   startdate |-> startdate, enddate |-> enddate,
                                   lastupdate |-> lastupdate,
                                   data_fields |-> Join(kept)]),
                     trace |-> w1 \o w2 \o w3.trace \o f.trace]

\* data_measure_get_workouts has no branch for an empty list
data_measure_get_workouts(startdate, enddate, lastupdate, offset, data_fields) ==
    LET h == handle_start_end_update_ymd(startdate, enddate, lastupdate)
    IN IF h.exc # "none" THEN BuilderFail(h.exc, h.trace)
       ELSE LET f == remove_invalid(data_fields, MEASURE_GET_WORKOUTS_DATA_FIELDS,
                                    "data_measure", 1, <<>>)
            IN [exc |-> "none",
                ret |-> Some([action |-> "getworkouts", startdateymd |-> h.ret[1][1],
                              enddateymd |-> h.ret[1][2], lastupdate |-> h.ret[1][3],
                              offset |-> offset, data_fields |-> Join(f.data_fields)]),
                trace |-> h.trace \o f.trace]

data_sleep_get(startdate, enddate, data_fields) ==
    LET w1 == warn_if_end_before_start(startdate, enddate)
        w2 == warn_if_start_equals_end(startdate, enddate)
        w3 == warn_if_time_diff_greater_24h(startdate, enddate)
    IN IF w3.exc # "none" THEN BuilderFail(w3.exc, w1 \o w2)
       ELSE LET f == remove_invalid(data_fields, SLEEP_GET_DATA_FIELDS, "data_sleep_get",
                                    1, <<>>)
                kept == IF Len(f.data_fields) = 0 THEN SLEEP_GET_DATA_FIELDS
                                                  ELSE f.data_fields
            IN [exc |-> "none",
                ret |-> Some([action |-> "get", startdate |-> startdate,
                              enddate |-> enddate, data_fields |-> Join(kept)]),
                trace |-> w1 \o w2 \o w3.trace \o f.trace]

\* ensure_non_negative_int_or_none(offset), for an offset that is an int
ensure_non_negative_int_or_none(param) ==
    IF param >= 0 THEN "none" ELSE "ValueError"

data_sleep_summary(startdate, enddate, lastupdate, offset, data_fields) ==
    LET h == handle_start_end_update_ymd(startdate, enddate, lastupdate)
    IN IF h.exc # "none" THEN BuilderFail(h.exc, h.trace)
       ELSE IF ensure_non_negative_int_or_none(offset) # "none"
       THEN BuilderFail("ValueError", h.trace)
       ELSE LET f == remove_invalid(data_fields, SLEEP_SUMMARY_DATA_FIELDS,
                                    "data_sleep_summary", 1, <<>>)
                kept == IF Len(f.data_fields) = 0 THEN SLEEP_SUMMARY_DATA_FIELDS
                                                  ELSE f.data_fields
            IN [exc |-> "none",
                ret |-> Some([action |-> "getsummary", startdateymd |-> h.ret[1][1],
                              enddateymd |-> h.ret[1][2], lastupdate |-> h.ret[1][3],
                              offset |-> offset, data_fields |-> Join(kept)]),
                trace |-> h.trace \o f.trace]

\* ------------------------------------- the calls of the request builders
\* These functions read and write nothing but their arguments: a call
\* leaves the client, the user and the files as they are.
BuilderFrame ==
    UNCHANGED <<now, client, clientFile, clientFileName, clientStores, user,
                userFile, userDir>>

\* a call that has been made with its arguments and has not yet run
Pending(op, args) ==
    [Call(op, "pending", None, <<>>, FALSE) EXCEPT !.args = Some(args)]

\* the outcome of the pending call
Returned(r) == [last EXCEPT !.exc = r.exc, !.ret = r.ret, !.trace = r.trace]

IsPending(op) == last.op = op /\ last.exc = "pending"

HandleStartEndUpdateYmd ==
    /\ IsPending("handle_start_end_update_ymd")
    /\ LET a == last.args[1] IN
       \E r \in {handle_start_end_update_ymd(a.startdate, a.enddate, a.lastupdate)} :
          last' = Returned(r)
    /\ BuilderFrame

\* the names given in data_fields: "steps" is a field of getactivity,
\* getintradayactivity and getworkouts, "stroke" of getintradayactivity
\* only, "snoring" of the two sleep actions, the other two of none
FieldNames == {"steps", "stroke", "snoring", "bad1", "bad2"}
FieldLists == UNION {[1..n -> FieldNames] : n \in 0..MaxFields}

\* the dates given to a builder: a pair of dates, lastupdate alone, a
\* single date, nothing
DateArgs ==
    {[startdate |-> Some(0), enddate |-> Some(90000), lastupdate |-> None],
     [startdate |-> None, enddate |-> None, lastupdate |-> Some(3600)],
     [startdate |-> Some(3600), enddate |-> None, lastupdate |-> None],
     [startdate |-> None, enddate |-> None, lastupdate |-> None]}

BuilderArgs(d, data_fields) ==
    [startdate |-> d.startdate, enddate |-> d.enddate,
     lastupdate |-> d.lastupdate, data_fields |-> data_fields]

DataMeasureGetActivity ==
    /\ IsPending("data_measure_get_activity")
    /\ LET a == last.args[1] IN
       \E r \in {data_measure_get_activity(a.startdate, a.enddate, a.lastupdate, 0,
                                           a.data_fields)} :
          last' = Returned(r)
    /\ BuilderFrame

DataMeasureGetWorkouts ==
    /\ IsPending("data_measure_get_workouts")
    /\ LET a == last.args[1] IN
       \E r \in {data_measure_get_workouts(a.startdate, a.enddate, a.lastupdate, 0,
                                           a.data_fields)} :
          last' = Returned(r)
    /\ BuilderFrame

DataSleepGet ==
    /\ IsPending("data_sleep_get")
    /\ LET a == last.args[1] IN
       \E r \in {data_sleep_get(a.startdate, a.enddate, a.data_fields)} :
          last' = Returned(r)
    /\ BuilderFrame

DataSleepSummary ==
    /\ IsPending("data_sleep_summary")
    /\ LET a == last.args[1] IN
       \E r \in {data_sleep_summary(a.startdate, a.enddate, a.lastupdate, 0,
                                    a.data_fields)} :
          last' = Returned(r)
    /\ BuilderFrame

DataMeasureGetIntradayactivity ==
    /\ IsPending("data_measure_get_intradayactivity")
    /\ LET a == last.args[1] IN
       \E r \in {data_measure_get_intradayactivity(a.startdate, a.enddate, a.lastupdate,
                                                   a.data_fields)} :
          last' = Returned(r)
    /\ BuilderFrame

\* the dates given to data_measure_get_intradayactivity: both, one, none
IntradayDates ==
    {[startdate |-> s, enddate |-> e, lastupdate |-> None] :
        s \in {None, Some(0), Some(3600)}, e \in {None, Some(3600), Some(90000)}}

\* the calls that are made: every function with every argument
PendingCalls ==
    {Pending("handle_start_end_update_ymd",
             [startdate |-> s, enddate |-> e, lastupdate |-> l]) :
        s \in OptTimestamps, e \in OptTimestamps, l \in OptTimestamps}
    \cup {Pending(op, BuilderArgs(d, f)) :
            op \in {"data_measure_get_activity", "data_measure_get_workouts",
                    "data_sleep_summary"},
            d \in DateArgs, f \in FieldLists}
    \cup {Pending("data_measure_get_intradayactivity", BuilderArgs(d, f)) :
            d \in IntradayDates, f \in FieldLists}
    \cup {Pending("data_sleep_get",
                  BuilderArgs([startdate |-> Some(s), enddate |-> Some(e),
                               lastupdate |-> None], f)) :
            s \in Timestamps, e \in Timestamps, f \in FieldLists}

InitRequests ==
    /\ now = 0
    /\ client = None
    /\ clientFile = None
    /\ clientFileName = "none"
    /\ clientStores = 0
    /\ user = None
    /\ userFile = None
    /\ userDir = FALSE
    /\ last \in PendingCalls

NextRequests ==
    \/ HandleStartEndUpdateYmd
    \/ DataMeasureGetActivity
    \/ DataMeasureGetIntradayactivity
    \/ DataMeasureGetWorkouts
    \/ DataSleepGet
    \/ DataSleepSummary

SpecRequests == InitRequests /\ [][NextRequests]_vars

\* ------------------------------------------------------------ the claims
\* a step that is a call of op: every call sets last, the clock does not
IsCall(op) == now' = now /\ last'.op = op

CredFields(u) == Restrict(u, CredKeys)

\* the call made last has carried out a refresh to its end
Refreshed(call) ==
    /\ call.rresp # None
    /\ Storing(call.rresp[1])
    /\ Assigns(call.trace, "expiration_time") # {}

\* C1: in a get_data_dict call made with an expired token, the data POST
\* comes after the refresh POST and after the three credential
\* assignments, the user holds the tokens of the refresh response, and the
\* Authorization header is token_type, a space and the access token that
\* the refresh response holds.
C1_HeaderFromRefreshedToken ==
    (last.op = "get_data_dict" /\ last.expired) =>
        \A d \in DataPosts(last.trace) :
            LET tr == last.trace
                body == last.rresp[1].content.body
            IN /\ Refreshed(last)
               /\ \E r \in RefreshPosts(tr) : r < d
               /\ \A k \in {"access_token", "refresh_token", "expiration_time"} :
                     \E a \in Assigns(tr, k) :
                        /\ a < d
                        /\ \A r \in RefreshPosts(tr) : r < a
                        /\ tr[a].value = user[1][k]
               /\ user[1].access_token = body.access_token
               /\ user[1].refresh_token = body.refresh_token
               /\ tr[d].headers = Some([Authorization |->
                                           user[1].token_type \o " " \o body.access_token,
                                        ContentType |-> "application/x-www-form-urlencoded"])

C1_Witness ==
    /\ last.op = "get_data_dict" /\ last.expired /\ last.exc = "none"
    /\ DataPosts(last.trace) # {}
    /\ last.rresp[1].content.body.access_token = "accB"
    /\ \E r \in RefreshPosts(last.trace) : last.trace[r].data.refresh_token = "refA"

\* C2: a get_data_dict call made with an expired token sends exactly one
\* request to the token endpoint, a refresh, as the first thing it does; it
\* sends at most one data request, after the refresh, and exactly one when
\* the refresh has succeeded.
C2_OneRefreshBeforeTheRequest ==
    (last.op = "get_data_dict" /\ last.expired) =>
        LET tr == last.trace
        IN /\ Cardinality(PostsTo(tr, URL_OAUTH2_V2)) = 1
           /\ RefreshPosts(tr) = {1}
           /\ Cardinality(DataPosts(tr)) <= 1
           /\ \A d \in DataPosts(tr) : d > 1
           /\ Refreshed(last) => Cardinality(DataPosts(tr)) = 1

C2_Witness ==
    /\ last.op = "get_data_dict" /\ last.expired
    /\ RefreshPosts(last.trace) = {1}
    /\ Cardinality(DataPosts(last.trace)) = 1

\* C3, as claimed: every successful call of refresh_existing_token leaves
\* expiration_time strictly greater than it was.
C3_AlwaysLater ==
    [][(IsCall("refresh_existing_token") /\ last'.exc = "none")
          => user'[1].expiration_time > user[1].expiration_time]_vars

\* C3, amended: a successful call of refresh_existing_token made while the
\* token has expired (expiration_time < now) leaves expiration_time
\* strictly greater than it was.
C3_LaterWhenExpired ==
    [][(IsCall("refresh_existing_token") /\ last'.exc = "none" /\ last'.expired)
          => user'[1].expiration_time > user[1].expiration_time]_vars

C3_Witness ==
    /\ last.op = "refresh_existing_token" /\ last.exc = "none" /\ last.expired
    /\ user[1].expiration_time = now + last.rresp[1].content.body.expires_in

\* the authorization-code grants among the events of a trace
GrantPosts(trace) ==
    {i \in PostsTo(trace, URL_OAUTH2_V2) : trace[i].data.grant_type = "authorization_code"}

\* the call made last is a successful construction by the initial grant
Granted(call) ==
    /\ call.op = "WithingsUser.__init__"
    /\ call.exc = "none"
    /\ GrantPosts(call.trace) # {}

\* C4: right after a successful refresh_existing_token and right after a
\* successful construction by the initial grant, expiration_time is
\* strictly greater than the current time.
C4_InTheFuture ==
    [][(now' = now /\ last'.exc = "none"
        /\ (last'.op = "refresh_existing_token" \/ Granted(last')))
          => user'[1].expiration_time > now']_vars

C4_Witness ==
    /\ Granted(last)
    /\ user[1].expiration_time > now

\* C5: when the body of the refresh response lacks access_token,
\* refresh_existing_token raises; when it returns, the three credentials
\* are those of the response, all three of them.
C5_MissingAccessTokenRaises ==
    (last.op = "refresh_existing_token") =>
        LET resp == last.rresp[1]
        IN /\ (/\ resp.http_ok
               /\ "body" \in DOMAIN resp.content
               /\ "access_token" \notin DOMAIN resp.content.body) => last.exc = "KeyError"
           /\ last.exc = "none" =>
                 /\ Storing(resp)
                 /\ user[1].access_token = resp.content.body.access_token
                 /\ user[1].refresh_token = resp.content.body.refresh_token
                 /\ Assigns(last.trace, "expiration_time") # {}

C5_Witness ==
    /\ last.op = "refresh_existing_token"
    /\ last.rresp[1].http_ok
    /\ "body" \in DOMAIN last.rresp[1].content
    /\ "access_token" \notin DOMAIN last.rresp[1].content.body
    /\ last.exc = "KeyError"

\* C6: when the refresh that get_data_dict starts fails (HTTP failure, no
\* body, or a body without access_token, refresh_token or expires_in),
\* get_data_dict ends in that error, returns nothing, has sent no data
\* request and has sent the one refresh request only.
C6_RefreshFailurePropagates ==
    (last.op = "get_data_dict" /\ last.expired /\ ~Storing(last.rresp[1])) =>
        /\ last.exc = (IF last.rresp[1].http_ok THEN "KeyError" ELSE "HTTPError")
        /\ last.ret = None
        /\ DataPosts(last.trace) = {}
        /\ Cardinality(PostsTo(last.trace, URL_OAUTH2_V2)) = 1

C6_Witness ==
    /\ last.op = "get_data_dict" /\ last.expired
    /\ last.rresp[1].http_ok
    /\ "body" \in DOMAIN last.rresp[1].content
    /\ DOMAIN last.rresp[1].content.body = {"access_token", "refresh_token"}
    /\ last.exc = "KeyError"

\* the call made last has changed the user's credentials and has completed
\* the change: a construction or a refresh that returned, or a
\* get_data_dict whose refresh returned
CredentialChangeCompleted ==
    /\ user # None
    /\ \/ last.exc = "none" /\ last.op \in {"WithingsUser.__init__", "WithingsUser.from_dict",
                                            "refresh_existing_token"}
       \/ last.op = "get_data_dict" /\ last.expired /\ Refreshed(last)

\* C7, as claimed: after every completed operation that changes the
\* credentials, user_params.json exists and its six credential fields equal
\* the fields of the user in memory, also when the write of the file fails.
C7_FileEqualsMemory ==
    CredentialChangeCompleted =>
        /\ userFile # None
        /\ CredFields(userFile[1]) = CredFields(user[1])

\* C8: a step that changes a credential field of a constructed user is a
\* refresh (refresh_existing_token, or get_data_dict called with an expired
\* token); get_data_dict with an unexpired token, create_headers,
\* store_user_params, create_user_folder and post_request_refresh change
\* none; and no step changes userid, scope or token_type.
C8_OnlyRefreshChangesCredentials ==
    [][(user # None /\ user' # None) =>
          /\ CredFields(user'[1]) # CredFields(user[1]) =>
                \/ IsCall("refresh_existing_token")
                \/ IsCall("get_data_dict") /\ last'.expired
          /\ \A k \in {"userid", "scope", "token_type"} : user'[1][k] = user[1][k]]_vars

C8_Witness ==
    /\ last.op = "get_data_dict" /\ ~last.expired /\ last.exc = "none"
    /\ user[1].expiration_time = now
    /\ userFile # None
    /\ user[1].access_token # userFile[1].access_token

DataFileWrites(trace) ==
    {i \in 1..Len(trace) : trace[i].ev = "write" /\ trace[i].file # UserParamsFile(user[1])}

\* C10, as claimed: when the data request succeeds at HTTP level and the
\* status of the response is not 0, get_data_dict raises
\* WithingsStatusNotZeroError, returns nothing and writes no data file.
C10_NonZeroStatusRaisesTyped ==
    (/\ last.op = "get_data_dict"
     /\ last.dresp # None
     /\ last.dresp[1].http_ok
     /\ "status" \in DOMAIN last.dresp[1].content
     /\ last.dresp[1].content.status # 0) =>
        /\ last.exc = "WithingsStatusNotZeroError"
        /\ last.ret = None
        /\ DataFileWrites(last.trace) = {}

\* C11: no call sends a request twice.  A call that is one post_request
\* (post_request_refresh, post_request_access) sends exactly one POST;
\* get_data_dict sends at most one POST to the token endpoint and at most
\* one data POST, whatever the outcome; no call at all sends two POSTs to
\* the same URL.
C11_NoRetry ==
    /\ last.op \in {"post_request_refresh", "post_request_access"} =>
          Cardinality(Posts(last.trace)) = 1
    /\ last.op = "get_data_dict" =>
          /\ Cardinality(PostsTo(last.trace, URL_OAUTH2_V2)) <= 1
          /\ Cardinality(DataPosts(last.trace)) <= 1
    /\ \A i, j \in Posts(last.trace) : last.trace[i].url = last.trace[j].url => i = j

C11_Witness ==
    /\ last.op = "get_data_dict" /\ last.exc = "HTTPError"
    /\ Cardinality(PostsTo(last.trace, URL_OAUTH2_V2)) = 1
    /\ Cardinality(DataPosts(last.trace)) = 1

\* C12, as claimed: when the construction without data has sent the grant
\* and the token endpoint has answered with a body that holds userid,
\* access_token, refresh_token, scope, token_type and expires_in, the
\* construction succeeds with those credentials, with expiration_time =
\* now + expires_in, and with the credentials in user_params.json.
C12_GrantWithStandardBody ==
    (/\ last.op = "WithingsUser.__init__"
     /\ GrantPosts(last.trace) # {}
     /\ last.rresp[1].http_ok
     /\ "body" \in DOMAIN last.rresp[1].content
     /\ (GrantKeys \ {"expiration_time"}) \subseteq DOMAIN last.rresp[1].content.body) =>
        LET body == last.rresp[1].content.body
        IN /\ last.exc = "none"
           /\ user # None
           /\ \A k \in CredKeys \ {"expiration_time"} : user[1][k] = body[k]
           /\ user[1].expiration_time = now + body.expires_in
           /\ userFile # None
           /\ CredFields(userFile[1]) = CredFields(user[1])

\* C13: a call that goes through access_new_token (access_new_token itself,
\* the construction of a user without data) sends the authorization-code
\* grant only when the redirect URL carries the state of the client; when
\* the URL carries another state the call ends in ValueError and has sent
\* no request.
C13_StateCheckedBeforeExchange ==
    (last.query # None) =>
        LET q == last.query[1]
        IN /\ GrantPosts(last.trace) # {} =>
                 "state" \in DOMAIN q /\ q.state = client[1].state
           /\ ("state" \in DOMAIN q /\ q.state # client[1].state) =>
                 last.exc = "ValueError" /\ Posts(last.trace) = {}

C13_Witness ==
    /\ last.op = "access_new_token"
    /\ last.query[1] = [state |-> "s2", code |-> "code1"]
    /\ client[1].state = "s1"
    /\ last.exc = "ValueError" /\ last.trace = <<>>

\* the combinations of the three parameters that the docstring allows:
\* the pair of dates without lastupdate, or lastupdate without any date
DatesOrUpdate(a) ==
    \/ a.startdate # None /\ a.enddate # None /\ a.lastupdate = None
    \/ a.startdate = None /\ a.enddate = None /\ a.lastupdate # None

\* C14: handle_start_end_update_ymd returns exactly when it is given the
\* pair of dates without lastupdate, or lastupdate without any date; every
\* other combination raises ValueError; and of the returned triple either
\* the two dates are set and lastupdate is None, or lastupdate is set and
\* the two dates are None.
C14_DatesXorUpdate ==
    (last.op = "handle_start_end_update_ymd" /\ last.exc # "pending") =>
        LET a == last.args[1]
        IN /\ (last.exc = "none") <=> DatesOrUpdate(a)
           /\ ~DatesOrUpdate(a) => last.exc = "ValueError" /\ last.ret = None
           /\ last.exc = "none" =>
                 LET t == last.ret[1]
                 IN /\ (t[1] # None) <=> (t[2] # None)
                    /\ (t[1] # None) <=> (t[3] = None)
                    /\ t[3] = a.lastupdate
                    /\ a.startdate # None =>
                          /\ t[1] = Some(fromtimestamp(a.startdate[1]))
                          /\ t[2] = Some(fromtimestamp(a.enddate[1]))

C14_Witness ==
    /\ last.op = "handle_start_end_update_ymd" /\ last.exc = "none"
    /\ last.args[1] = [startdate |-> Some(0), enddate |-> Some(90000), lastupdate |-> None]
    /\ last.ret = Some(<<Some([ymd |-> 0]), Some([ymd |-> 1]), None>>)

\* the full field list of the endpoint that a builder makes the request for
FieldsOf(op) ==
    CASE op = "data_measure_get_activity" -> MEASURE_GET_ACTIVITY_DATA_FIELDS
      [] op = "data_measure_get_intradayactivity" -> MEASURE_GET_INTRADAYACTIVITY_DATA_FIELDS
      [] op = "data_measure_get_workouts" -> MEASURE_GET_WORKOUTS_DATA_FIELDS
      [] op = "data_sleep_get" -> SLEEP_GET_DATA_FIELDS
      [] op = "data_sleep_summary" -> SLEEP_SUMMARY_DATA_FIELDS
      [] OTHER -> <<>>

\* the warnings of a trace that tell of an invalid data field
FieldWarnings(trace) ==
    {i \in Warnings(trace) :
        trace[i].msg \notin {DATE_ORDER_WARNING_STR, START_EQUALS_END_WARNING_STR,
                             TIME_DIFF_GREATER_24H_WARNING_STR}}

\* the positions of a list that hold a name the endpoint of op does not have
InvalidPositions(op, data_fields) ==
    {i \in 1..Len(data_fields) : data_fields[i] \notin Range(FieldsOf(op))}

\* the data_fields strings that hold valid names only: the joined full
\* list and the joined lists of valid names
ValidFieldStrings(op) ==
    {Join(FieldsOf(op))}
    \cup {Join(l) : l \in {m \in FieldLists : InvalidPositions(op, m) = {}}}

\* C15, as claimed: the data_fields string that data_measure_get_activity,
\* data_measure_get_workouts, data_sleep_get and data_sleep_summary return
\* holds names of the endpoint only, and the call has issued one warning
\* for each invalid name of its input list.
C15_OnlyValidFieldsSent ==
    (/\ last.op \in {"data_measure_get_activity", "data_measure_get_workouts",
                     "data_sleep_get", "data_sleep_summary"}
     /\ last.exc = "none") =>
        /\ last.ret[1].data_fields \in ValidFieldStrings(last.op)
        /\ Cardinality(FieldWarnings(last.trace))
              = Cardinality(InvalidPositions(last.op, last.args[1].data_fields))

\* C16, as claimed: when the data_fields given to a builder hold no name
\* of its endpoint, the request asks for all fields of that endpoint:
\* data_fields is the joined full field list of the endpoint.
C16_NoValidFieldAsksForAll ==
    (/\ last.op \in {"data_measure_get_activity", "data_measure_get_intradayactivity",
                     "data_measure_get_workouts", "data_sleep_get", "data_sleep_summary"}
     /\ last.exc = "none"
     /\ InvalidPositions(last.op, last.args[1].data_fields)
           = 1..Len(last.args[1].data_fields)) =>
        last.ret[1].data_fields = Join(FieldsOf(last.op))

\* C17, as claimed: data_measure_get_intradayactivity raises ValueError
\* when startdate and enddate are both None, and returns a request with
\* action getintradayactivity and the given dates when at least one of
\* them is given.
C17_IntradayNeedsOneDate ==
    (last.op = "data_measure_get_intradayactivity" /\ last.exc # "pending") =>
        LET a == last.args[1]
        IN IF a.startdate = None /\ a.enddate = None
           THEN last.exc = "ValueError"
           ELSE /\ last.exc = "none"
                /\ last.ret[1].action = "getintradayactivity"
                /\ last.ret[1].startdate = a.startdate
                /\ last.ret[1].enddate = a.enddate

\* the writes of a trace to user_params.json of the user
UserParamsWrites(trace) ==
    {i \in 1..Len(trace) :
        trace[i].ev = "write" /\ trace[i].file = "user_" \o user[1].userid \o "/user_params.json"}

C19_NoRefreshBeforeExpiry ==
    [][(IsCall("get_data_dict") /\ user[1].expiration_time >= now) =>
          /\ PostsTo(last'.trace, URL_OAUTH2_V2) = {}
          /\ user' = user
          /\ userFile' = userFile
          /\ Posts(last'.trace) = {1}
          /\ last'.trace[1].url # URL_OAUTH2_V2
          /\ last'.trace[1].headers[1].Authorization
                = user[1].token_type \o " " \o user[1].access_token]_vars

C19_Witness ==
    /\ last.op = "get_data_dict" /\ last.exc = "none" /\ ~last.expired
    /\ user[1].expiration_time = now
    /\ last.rresp = None
    /\ Posts(last.trace) = {1}

\* C20, as claimed: a user constructed from a data dict (by the
\* constructor or by from_dict) has started no interactive grant; when
\* data["expiration_time"] was not less than the time of the call, no
\* request was sent and the fields of the user are those of the dict; when
\* it was less, one request was sent, the refresh with
\* data["refresh_token"], and the refreshed access_token, refresh_token and
\* expiration_time are in memory and in user_params.json.
C20_FromDict ==
    (/\ last.op \in {"WithingsUser.__init__", "WithingsUser.from_dict"}
     /\ last.args # None
     /\ last.exc = "none") =>
        LET data == last.args[1]
            tr == last.trace
        IN /\ GrantPosts(tr) = {} /\ last.query = None
           /\ IF ~last.expired
              THEN Posts(tr) = {} /\ CredFields(user[1]) = data
              ELSE /\ Posts(tr) = {1} /\ RefreshPosts(tr) = {1}
                   /\ tr[1].data.refresh_token = data.refresh_token
                   /\ user[1].access_token = last.rresp[1].content.body.access_token
                   /\ user[1].refresh_token = last.rresp[1].content.body.refresh_token
                   /\ \E a \in Assigns(tr, "expiration_time") :
                         /\ tr[a].value = user[1].expiration_time
                         /\ tr[a].value > data.expiration_time
                   /\ userFile # None
                   /\ CredFields(userFile[1]) = CredFields(user[1])

\* C21: a post_request_measure call that sends its data request sends it
\* to URL_MEASURE when data["action"] is "getmeas" and to URL_MEASURE_V2
\* for every other action.
C21_MeasureDispatch ==
    (last.op = "post_request_measure" /\ DataPosts(last.trace) # {}) =>
        \A i \in DataPosts(last.trace) :
            /\ last.trace[i].data = last.args[1]
            /\ last.trace[i].url = IF last.args[1].action = "getmeas"
                                   THEN URL_MEASURE
                                   ELSE URL_MEASURE_V2

\* C22: a refresh_existing_token call that raises, whether the request
\* failed, the response had no body or the body lacked one of access_token,
\* refresh_token and expires_in, leaves the access_token, refresh_token and
\* expiration_time of the user and the contents of user_params.json as
\* they were before the call.
C22_FailedRefreshChangesNothing ==
    [][(IsCall("refresh_existing_token") /\ last'.exc # "none") =>
          /\ user'[1].access_token = user[1].access_token
          /\ user'[1].refresh_token = user[1].refresh_token
          /\ user'[1].expiration_time = user[1].expiration_time
          /\ userFile' = userFile]_vars
====
